---- MODULE Spec2Model ----
(***************************************************************************)
(* The transaction graph of src/graph.rs: a HashMap of transactions keyed  *)
(* by id, the pre-inserted root, and the two graph-wide summary metrics    *)
(* maintained by add_node.                                                 *)
(*                                                                         *)
(* in_reference and depth grow by at most 2 resp. 1 per admitted           *)
(* transaction, so within the bounds below no u32 addition of add_node can *)
(* wrap and they are modelled as naturals.  The addition of with_capacity  *)
(* can: the capacity is a u32 of U32Bits bits, a reduced width that keeps  *)
(* the largest value of the type within reach.                             *)
(***************************************************************************)
EXTENDS Integers, Sequences, FiniteSets, TLC

\* Bounds of the model.
MaxId == 2
MaxTimestamp == 1
MaxNodes == 3
MaxCapacity == 0
MaxTriples == 2
MaxPlaceholder == 2
U32Bits == 3

\* u32::MAX at the width of the model
U32_MAX == 2 ^ U32Bits - 1

Ids == 0..MaxId
DeepIds == 0..(MaxId + 1)
DeepNodes == MaxNodes + 1
Timestamps == 0..MaxTimestamp
Capacities == 0..MaxCapacity
Placeholders == 0..MaxPlaceholder

\* Option<(u32, u32)>
None == <<>>
Some(left_parent, right_parent) == <<left_parent, right_parent>>

\* Result<(), GraphError>, and the abort of a failed expect()/unwrap()
Ok == <<"Ok">>
DuplicatedIdFound(id) == <<"DuplicatedIdFound", id>>
ParentNotFound == <<"ParentNotFound">>
ParentNotSpecified == <<"ParentNotSpecified">>
Panic == <<"panic">>
NoCall == <<"no call yet">>

Min(a, b) == IF a < b THEN a ELSE b

ROOT_NODE ==
    [id |-> 1, parents |-> None, timestamp |-> 0,
     metrics |-> [depth |-> 0, in_reference |-> 0]]

\* Node::new
Node_new(id, left_parent, right_parent, timestamp) ==
    [id |-> id, timestamp |-> timestamp,
     parents |-> Some(left_parent, right_parent),
     metrics |-> [depth |-> 0, in_reference |-> 0]]

\* A transaction written as a struct literal without parents.
Orphan(id, timestamp) ==
    [id |-> id, timestamp |-> timestamp, parents |-> None,
     metrics |-> [depth |-> 0, in_reference |-> 0]]

\* A transaction written as a struct literal with metrics of the caller's.
Raw(id, left_parent, right_parent, timestamp, d, n) ==
    [id |-> id, timestamp |-> timestamp,
     parents |-> Some(left_parent, right_parent),
     metrics |-> [depth |-> d, in_reference |-> n]]

\* GeneralMetrics::default()
GeneralMetrics_default ==
    [last_transaction |-> 0, most_in_reference_transaction |-> 0]

\* Graph::with_capacity; panicked records an expect() or an arithmetic
\* overflow check that failed.  num_child + 1 is a u32 addition: past u32::MAX
\* it panics in a build with overflow checks (before anything is allocated)
\* and wraps in a build without.
with_capacity(num_child, overflow_checks) ==
    IF num_child + 1 > U32_MAX /\ overflow_checks
    THEN [num_nodes |-> 0,
          nodes |-> <<>>,
          metrics |-> GeneralMetrics_default,
          panicked |-> TRUE]
    ELSE [num_nodes |-> (num_child + 1) % (U32_MAX + 1),
          nodes |-> (1 :> ROOT_NODE),
          metrics |-> GeneralMetrics_default,
          panicked |-> FALSE]

exists_node(g, id) == id \in DOMAIN g.nodes

\* HashMap::insert: overwrites an existing key.
add_vertex(g, node) == [g EXCEPT !.nodes = (node.id :> node) @@ g.nodes]

Abort(g) == [g EXCEPT !.panicked = TRUE]

\* Mutant: the recorded id is looked up without the test for "unset".
update_last_transaction_no_unset(g, node) ==
    IF ~exists_node(g, g.metrics.last_transaction)
    THEN Abort(g)
    ELSE IF g.nodes[g.metrics.last_transaction].timestamp < node.timestamp
    THEN [g EXCEPT !.metrics.last_transaction = node.id]
    ELSE g

update_last_transaction(g, node) ==
    IF g.metrics.last_transaction = 0
    THEN [g EXCEPT !.metrics.last_transaction = node.id]
    ELSE IF ~exists_node(g, g.metrics.last_transaction)
    THEN Abort(g)
    ELSE IF g.nodes[g.metrics.last_transaction].timestamp < node.timestamp
    THEN [g EXCEPT !.metrics.last_transaction = node.id]
    ELSE g

update_most_in_reference_transaction(g, to_compare) ==
    IF g.metrics.most_in_reference_transaction = 0
    THEN [g EXCEPT !.metrics.most_in_reference_transaction = to_compare[1]]
    ELSE IF ~exists_node(g, g.metrics.most_in_reference_transaction)
    THEN Abort(g)
    ELSE IF g.nodes[g.metrics.most_in_reference_transaction].metrics.in_reference
              < to_compare[2].in_reference
    THEN [g EXCEPT !.metrics.most_in_reference_transaction = to_compare[1]]
    ELSE g

\* Mutant: depth from the deeper parent.
update_summary_max(g, node, left_parent_metrics, right_parent_metrics) ==
    LET d == IF left_parent_metrics[2].depth > right_parent_metrics[2].depth
             THEN left_parent_metrics[2].depth
             ELSE right_parent_metrics[2].depth
        node1 == [node EXCEPT !.metrics.depth = d + 1]
        g1 == update_last_transaction(g, node1)
        g2 == update_most_in_reference_transaction(g1, left_parent_metrics)
        g3 == update_most_in_reference_transaction(g2, right_parent_metrics)
    IN  [graph |-> g3, node |-> node1]

\* Mutant: depth from the left parent alone.
update_summary_left(g, node, left_parent_metrics, right_parent_metrics) ==
    LET node1 == [node EXCEPT !.metrics.depth = left_parent_metrics[2].depth + 1]
        g1 == update_last_transaction(g, node1)
        g2 == update_most_in_reference_transaction(g1, left_parent_metrics)
        g3 == update_most_in_reference_transaction(g2, right_parent_metrics)
    IN  [graph |-> g3, node |-> node1]

\* The steps of update_metrics after both parents were incremented.
update_summary(g, node, left_parent_metrics, right_parent_metrics) ==
    LET node1 == [node EXCEPT !.metrics.depth =
                     Min(left_parent_metrics[2].depth,
                         right_parent_metrics[2].depth) + 1]
        g1 == update_last_transaction(g, node1)
        g2 == IF g1.panicked THEN g1
              ELSE update_most_in_reference_transaction(g1, left_parent_metrics)
        g3 == IF g2.panicked THEN g2
              ELSE update_most_in_reference_transaction(g2, right_parent_metrics)
    IN  [graph |-> g3, node |-> node1]

\* Mutant: the right parent is incremented in a stale copy of the store.
update_metrics_stale(g, node) ==
    LET l == node.parents[1]
        r == node.parents[2]
        g1 == [g EXCEPT !.nodes[l].metrics.in_reference = @ + 1]
        g2 == [g EXCEPT !.nodes[r].metrics.in_reference = @ + 1]
    IN  update_summary(g2, node, <<g1.nodes[l].id, g1.nodes[l].metrics>>,
                       <<g2.nodes[r].id, g2.nodes[r].metrics>>)

\* Mutant: a parent named twice is incremented once.
update_metrics_once(g, node) ==
    LET l == node.parents[1]
        r == node.parents[2]
        g1 == [g EXCEPT !.nodes[l].metrics.in_reference = @ + 1]
        g2 == IF l = r THEN g1
              ELSE [g1 EXCEPT !.nodes[r].metrics.in_reference = @ + 1]
    IN  update_summary(g2, node, <<g1.nodes[l].id, g1.nodes[l].metrics>>,
                       <<g2.nodes[r].id, g2.nodes[r].metrics>>)

update_metrics(g, node) ==
    LET l == node.parents[1]
        r == node.parents[2]
    IN  IF node.parents = None \/ ~exists_node(g, l)
        THEN [graph |-> Abort(g), node |-> node]
        ELSE LET g1 == [g EXCEPT !.nodes[l].metrics.in_reference = @ + 1]
                 left_parent_metrics == <<g1.nodes[l].id, g1.nodes[l].metrics>>
             IN  IF ~exists_node(g1, r)
                 THEN [graph |-> Abort(g1), node |-> node]
                 ELSE LET g2 == [g1 EXCEPT !.nodes[r].metrics.in_reference = @ + 1]
                          right_parent_metrics ==
                              <<g2.nodes[r].id, g2.nodes[r].metrics>>
                      IN  update_summary(g2, node, left_parent_metrics,
                                         right_parent_metrics)

\* Mutant: the left parent is incremented before the right one is looked up.
add_node_increment_before_check(g, node) ==
    IF exists_node(g, node.id)
    THEN [graph |-> g, node |-> node, result |-> DuplicatedIdFound(node.id)]
    ELSE IF node.parents = None
    THEN [graph |-> g, node |-> node, result |-> ParentNotSpecified]
    ELSE IF ~exists_node(g, node.parents[1])
    THEN [graph |-> g, node |-> node, result |-> ParentNotFound]
    ELSE IF ~exists_node(g, node.parents[2])
    THEN [graph |-> [g EXCEPT !.nodes[node.parents[1]].metrics.in_reference = @ + 1],
          node |-> node, result |-> ParentNotFound]
    ELSE LET m == update_metrics(g, node)
         IN  [graph |-> add_vertex(m.graph, m.node), node |-> m.node,
              result |-> Ok]

\* Mutant: the parents are looked at before the id.
add_node_parents_first(g, node) ==
    IF node.parents = None
    THEN [graph |-> g, node |-> node, result |-> ParentNotSpecified]
    ELSE IF exists_node(g, node.id)
    THEN [graph |-> g, node |-> node, result |-> DuplicatedIdFound(node.id)]
    ELSE IF ~exists_node(g, node.parents[1]) \/ ~exists_node(g, node.parents[2])
    THEN [graph |-> g, node |-> node, result |-> ParentNotFound]
    ELSE LET m == update_metrics(g, node)
         IN  [graph |-> add_vertex(m.graph, m.node), node |-> m.node,
              result |-> Ok]

\* Mutant: a candidate without parents is reported as having unknown parents.
add_node_orphan_not_found(g, node) ==
    IF exists_node(g, node.id)
    THEN [graph |-> g, node |-> node, result |-> DuplicatedIdFound(node.id)]
    ELSE IF node.parents = None
    THEN [graph |-> g, node |-> node, result |-> ParentNotFound]
    ELSE IF ~exists_node(g, node.parents[1]) \/ ~exists_node(g, node.parents[2])
    THEN [graph |-> g, node |-> node, result |-> ParentNotFound]
    ELSE LET m == update_metrics(g, node)
         IN  [graph |-> add_vertex(m.graph, m.node), node |-> m.node,
              result |-> Ok]

\* Mutant: ParentNotFound only when both parents are missing.
add_node_both_missing(g, node) ==
    IF exists_node(g, node.id)
    THEN [graph |-> g, node |-> node, result |-> DuplicatedIdFound(node.id)]
    ELSE IF node.parents = None
    THEN [graph |-> g, node |-> node, result |-> ParentNotSpecified]
    ELSE IF ~exists_node(g, node.parents[1]) /\ ~exists_node(g, node.parents[2])
    THEN [graph |-> g, node |-> node, result |-> ParentNotFound]
    ELSE LET m == update_metrics(g, node)
         IN  IF m.graph.panicked
             THEN [graph |-> m.graph, node |-> m.node, result |-> Panic]
             ELSE [graph |-> add_vertex(m.graph, m.node), node |-> m.node,
                   result |-> Ok]

\* Mutant: no test for a stored id, so add_vertex can overwrite.
add_node_no_duplicate_check(g, node) ==
    IF node.parents = None
    THEN [graph |-> g, node |-> node, result |-> ParentNotSpecified]
    ELSE IF ~exists_node(g, node.parents[1]) \/ ~exists_node(g, node.parents[2])
    THEN [graph |-> g, node |-> node, result |-> ParentNotFound]
    ELSE LET m == update_metrics(g, node)
         IN  [graph |-> add_vertex(m.graph, m.node), node |-> m.node,
              result |-> Ok]

\* Mutant: the candidate is inserted before its parents are looked up.
add_node_vertex_first(g, node) ==
    IF exists_node(g, node.id)
    THEN [graph |-> g, node |-> node, result |-> DuplicatedIdFound(node.id)]
    ELSE IF node.parents = None
    THEN [graph |-> g, node |-> node, result |-> ParentNotSpecified]
    ELSE LET g0 == add_vertex(g, node)
         IN  IF ~exists_node(g0, node.parents[1]) \/ ~exists_node(g0, node.parents[2])
             THEN [graph |-> g, node |-> node, result |-> ParentNotFound]
             ELSE LET m == update_metrics(g0, node)
                  IN  [graph |-> add_vertex(m.graph, m.node), node |-> m.node,
                       result |-> Ok]

\* Mutant: the capacity given at construction is enforced.
add_node_enforces_capacity(g, node) ==
    IF exists_node(g, node.id)
    THEN [graph |-> g, node |-> node, result |-> DuplicatedIdFound(node.id)]
    ELSE IF node.parents = None
    THEN [graph |-> g, node |-> node, result |-> ParentNotSpecified]
    ELSE IF ~exists_node(g, node.parents[1]) \/ ~exists_node(g, node.parents[2])
    THEN [graph |-> g, node |-> node, result |-> ParentNotFound]
    ELSE IF Cardinality(DOMAIN g.nodes) >= g.num_nodes
    THEN [graph |-> Abort(g), node |-> node, result |-> Panic]
    ELSE LET m == update_metrics(g, node)
         IN  [graph |-> add_vertex(m.graph, m.node), node |-> m.node,
              result |-> Ok]

add_node(g, node) ==
    IF exists_node(g, node.id)
    THEN [graph |-> g, node |-> node, result |-> DuplicatedIdFound(node.id)]
    ELSE IF node.parents = None
    THEN [graph |-> g, node |-> node, result |-> ParentNotSpecified]
    ELSE IF ~exists_node(g, node.parents[1]) \/ ~exists_node(g, node.parents[2])
    THEN [graph |-> g, node |-> node, result |-> ParentNotFound]
    ELSE LET m == update_metrics(g, node)
         IN  IF m.graph.panicked
             THEN [graph |-> m.graph, node |-> m.node, result |-> Panic]
             ELSE [graph |-> add_vertex(m.graph, m.node), node |-> m.node,
                   result |-> Ok]

\* Mutant: ids assigned from 1.
try_from_id_from_one(index) == index + 1

\* Mutant: ids assigned from 3.
try_from_id_from_three(index) == index + 3

\* The id try_from gives the triple at the 0-based position index; a u32
\* addition that cannot wrap for lists of at most MaxTriples triples.
try_from_id(index) == index + 2

\* The loop of try_from from the k-th transaction on: the first error ends it.
RECURSIVE add_all(_, _, _)
add_all(g, list, k) ==
    IF k > Len(list)
    THEN [result |-> Ok, graph |-> g, added |-> k - 1]
    ELSE LET out == add_node(g, list[k])
         IN  IF out.result # Ok
             THEN [result |-> out.result, graph |-> out.graph, added |-> k - 1]
             ELSE add_all(out.graph, list, k + 1)

\* TryFrom<Vec<(u32, u32, u32)>> for Graph; added counts the transactions
\* admitted before the function returned.
try_from(triples, overflow_checks) ==
    LET list == [k \in 1..Len(triples) |->
                    Node_new(try_from_id(k - 1), triples[k][1], triples[k][2],
                             triples[k][3])]
        g == with_capacity(Len(triples) % (U32_MAX + 1), overflow_checks)
    IN  IF g.panicked
        THEN [result |-> Panic, graph |-> g, added |-> 0]
        ELSE add_all(g, list, 1)

(***************************************************************************)
(* State: the fields of Graph, the value returned by the last call, the    *)
(* ids in their order of admission, and the Vec handed to try_from (empty  *)
(* when the graph comes from with_capacity).                               *)
(***************************************************************************)
VARIABLES num_nodes, nodes, metrics, panicked, result, admitted, values

vars == <<num_nodes, nodes, metrics, panicked, result, admitted, values>>

graph ==
    [num_nodes |-> num_nodes, nodes |-> nodes, metrics |-> metrics,
     panicked |-> panicked]

\* The state after Graph::with_capacity(num_child), num_child in capacities.
Create(capacities) ==
    \E num_child \in capacities, overflow_checks \in BOOLEAN :
        LET g == with_capacity(num_child, overflow_checks)
        IN  /\ num_nodes = g.num_nodes
            /\ nodes = g.nodes
            /\ metrics = g.metrics
            /\ panicked = g.panicked
            /\ result = NoCall
            /\ admitted = IF g.panicked THEN <<>> ELSE <<1>>
            /\ values = <<>>

Init == Create(Capacities)

\* One call graph.add_node(&mut candidate); at most max_nodes are stored.
Call(candidate, max_nodes) ==
    /\ ~panicked
    /\ LET out == add_node(graph, candidate)
       IN  /\ out.result = Ok => Cardinality(DOMAIN nodes) < max_nodes
           /\ num_nodes' = out.graph.num_nodes
           /\ nodes' = out.graph.nodes
           /\ metrics' = out.graph.metrics
           /\ panicked' = out.graph.panicked
           /\ result' = out.result
           /\ admitted' = IF out.result = Ok
                          THEN Append(admitted, candidate.id)
                          ELSE admitted
           /\ UNCHANGED values

\* add_node of a transaction built by Node::new
AddNode(ids, max_nodes) ==
    \E id \in ids, l \in ids, r \in ids, t \in Timestamps :
        Call(Node_new(id, l, r, t), max_nodes)

\* add_node of a transaction that declares no parents
AddOrphan(ids, max_nodes) ==
    \E id \in ids, t \in Timestamps : Call(Orphan(id, t), max_nodes)

Next == AddNode(Ids, MaxNodes) \/ AddOrphan(Ids, MaxNodes)

Spec == Init /\ [][Next]_vars

\* The same program over one more id and one more stored transaction.
NextDeep == AddNode(DeepIds, DeepNodes) \/ AddOrphan(DeepIds, DeepNodes)

SpecDeep == Init /\ [][NextDeep]_vars

\* The same program after with_capacity of any u32, u32::MAX included.
InitCreate == Create(0..U32_MAX)

SpecCreate == InitCreate /\ [][Next]_vars

\* add_node of a struct literal that carries any depth and in_reference
AddRaw(ids, max_nodes) ==
    \E id \in ids, l \in ids, r \in ids, t \in Timestamps,
       d \in Placeholders, n \in Placeholders :
        Call(Raw(id, l, r, t, d, n), max_nodes)

NextRaw == AddRaw(Ids, MaxNodes) \/ AddOrphan(Ids, MaxNodes)

SpecRaw == Init /\ [][NextRaw]_vars

\* The inputs of try_from.
Triples == Ids \X Ids \X Timestamps
TripleLists == UNION {[1..n -> Triples] : n \in 0..MaxTriples}

\* Before Graph::try_from(values): there is no graph yet.
InitBuild ==
    /\ values \in TripleLists
    /\ num_nodes = 0
    /\ nodes = <<>>
    /\ metrics = GeneralMetrics_default
    /\ panicked = FALSE
    /\ result = NoCall
    /\ admitted = <<>>

\* One call Graph::try_from(values): the graph on Ok, no graph on an error.
TryFrom ==
    /\ result = NoCall
    /\ \E overflow_checks \in BOOLEAN :
           LET out == try_from(values, overflow_checks)
           IN  /\ result' = out.result
               /\ panicked' = out.graph.panicked
               /\ num_nodes' = IF out.result = Ok THEN out.graph.num_nodes ELSE 0
               /\ nodes' = IF out.result = Ok THEN out.graph.nodes ELSE <<>>
               /\ metrics' = IF out.result = Ok THEN out.graph.metrics
                             ELSE GeneralMetrics_default
               /\ admitted' = [k \in 1..(out.added + 1) |->
                                  IF k = 1 THEN 1 ELSE try_from_id(k - 2)]
               /\ UNCHANGED values

NextBuild == TryFrom

SpecBuild == InitBuild /\ [][NextBuild]_vars

(***************************************************************************)
(* Vocabulary of the properties.                                           *)
(***************************************************************************)
\* Every transaction a caller can hand to add_node over the ids of the model.
Candidates ==
    {Node_new(id, l, r, t) : id \in DeepIds, l \in DeepIds, r \in DeepIds,
                             t \in Timestamps}
    \cup {Orphan(id, t) : id \in DeepIds, t \in Timestamps}

Stored == DOMAIN nodes
in_reference(id) == nodes[id].metrics.in_reference
depth(id) == nodes[id].metrics.depth
SomeAddSucceeded == Len(admitted) > 1
Occurrences(id, parents) ==
    (IF parents[1] = id THEN 1 ELSE 0) + (IF parents[2] = id THEN 1 ELSE 0)
\* The state right after with_capacity or a successful add_node.  A failed
\* call hands back the graph it was given, so every graph the program reaches
\* is the graph of such a state; the properties that try every candidate on
\* the graph are evaluated there.
GraphIsNew == result \in {NoCall, Ok}
\* Position of a stored id in the order of admission.
AdmittedAt(id) == CHOOSE k \in 1..Len(admitted) : admitted[k] = id

\* C1: whenever add_node returns one of its three errors, the stored ids,
\* every stored transaction (id, timestamp, parents, depth, in_reference) and
\* both summary fields are exactly what they were before the call.
AddIsAllOrNothing ==
    GraphIsNew => \A c \in Candidates :
        LET out == add_node(graph, c)
        IN  out.result \in {DuplicatedIdFound(c.id), ParentNotSpecified,
                            ParentNotFound}
                => /\ out.graph.nodes = nodes
                   /\ out.graph.metrics = metrics

\* A call failed on a graph that holds more than the root and a set summary.
AddIsAllOrNothingWitness ==
    /\ result \in {ParentNotSpecified, ParentNotFound}
    /\ metrics.last_transaction # 0
    /\ \E id \in Stored : in_reference(id) > 0

\* C2: add_node of an id that is already stored (the root's included, whatever
\* the candidate's parents) returns DuplicatedIdFound of that id and leaves
\* the number of stored transactions, their metrics and the summary unchanged.
DuplicateIdIsRejected ==
    GraphIsNew => \A c \in Candidates :
        c.id \in Stored =>
            LET out == add_node(graph, c)
            IN  /\ out.result = DuplicatedIdFound(c.id)
                /\ Cardinality(DOMAIN out.graph.nodes) = Cardinality(Stored)
                /\ \A id \in Stored :
                       out.graph.nodes[id].metrics = nodes[id].metrics
                /\ out.graph.metrics = metrics

\* The root id and a later admitted id were both offered again.
DuplicateIdIsRejectedWitness ==
    \/ result = DuplicatedIdFound(1)
    \/ /\ Len(admitted) > 1
       /\ result = DuplicatedIdFound(admitted[Len(admitted)])

\* C3 as stated: add_node of a candidate without parents returns
\* ParentNotSpecified, whether its id is new or already stored.
AbsentParentsAlwaysNotSpecified ==
    \A c \in Candidates :
        c.parents = None => add_node(graph, c).result = ParentNotSpecified

\* C3 amended: add_node of a candidate without parents returns
\* ParentNotSpecified when its id is new, and DuplicatedIdFound of its id
\* when the id is already stored; the graph is unchanged in both cases.
AbsentParentsNotSpecifiedForNewId ==
    GraphIsNew => \A c \in Candidates :
        c.parents = None =>
            LET out == add_node(graph, c)
            IN  /\ out.result = IF c.id \in Stored
                                THEN DuplicatedIdFound(c.id)
                                ELSE ParentNotSpecified
                /\ out.graph = graph

\* A candidate without parents was rejected for having none.
AbsentParentsWitness == result = ParentNotSpecified

\* C4: for a new id and a declared parent pair, add_node returns
\* ParentNotFound exactly when one of the two parents is not stored (the
\* candidate's own id included), returns Ok otherwise, and leaves the store
\* unchanged on ParentNotFound.
ParentNotFoundIffParentMissing ==
    GraphIsNew => \A c \in Candidates :
        (c.id \notin Stored /\ c.parents # None) =>
            LET out == add_node(graph, c)
                missing == c.parents[1] \notin Stored \/ c.parents[2] \notin Stored
            IN  /\ out.result = IF missing THEN ParentNotFound ELSE Ok
                /\ missing => out.graph = graph

\* A declared parent was missing in a graph that stores other transactions.
ParentNotFoundWitness ==
    /\ result = ParentNotFound
    /\ Cardinality(Stored) > 1

\* C5: a successful add_node stores exactly one more id, the candidate's;
\* raises in_reference of each parent by one per occurrence (two when both
\* parents are the same); gives the candidate depth min(depth(l), depth(r)) + 1;
\* and changes nothing else of any transaction stored before.
SuccessfulAddEffect ==
    GraphIsNew => \A c \in Candidates :
        LET out == add_node(graph, c)
            after == out.graph.nodes
        IN  out.result = Ok =>
                /\ c.id \notin Stored
                /\ DOMAIN after = Stored \cup {c.id}
                /\ after[c.id].id = c.id
                /\ after[c.id].metrics.depth =
                       Min(depth(c.parents[1]), depth(c.parents[2])) + 1
                /\ \A id \in Stored :
                       /\ after[id].metrics.in_reference =
                              in_reference(id) + Occurrences(id, c.parents)
                       /\ after[id].metrics.depth = depth(id)
                       /\ after[id].id = nodes[id].id
                       /\ after[id].timestamp = nodes[id].timestamp
                       /\ after[id].parents = nodes[id].parents

\* An add succeeded with two different parents, after one with twice the same.
SuccessfulAddEffectWitness ==
    /\ result = Ok
    /\ LET last == nodes[admitted[Len(admitted)]]
       IN  last.parents[1] # last.parents[2]
    /\ \E id \in Stored :
           nodes[id].parents # None /\ nodes[id].parents[1] = nodes[id].parents[2]

\* C6: once an add succeeded, last_transaction is a stored id whose
\* timestamp is at least the timestamp of every stored transaction.
LastTransactionIsLatest ==
    SomeAddSucceeded =>
        /\ metrics.last_transaction \in Stored
        /\ \A id \in Stored :
               nodes[metrics.last_transaction].timestamp >= nodes[id].timestamp

\* C7: among the stored transactions with the maximal timestamp (the root
\* included), last_transaction is the one admitted first.
LastTransactionIsEarliestLatest ==
    SomeAddSucceeded =>
        /\ metrics.last_transaction \in Stored
        /\ \A id \in Stored :
               \/ nodes[id].timestamp < nodes[metrics.last_transaction].timestamp
               \/ /\ nodes[id].timestamp = nodes[metrics.last_transaction].timestamp
                  /\ AdmittedAt(metrics.last_transaction) <= AdmittedAt(id)

\* C8: once an add succeeded, most_in_reference_transaction is a stored id
\* whose in_reference is at least the in_reference of every stored transaction.
MostInReferenceIsMaximal ==
    SomeAddSucceeded =>
        /\ metrics.most_in_reference_transaction \in Stored
        /\ \A id \in Stored :
               in_reference(metrics.most_in_reference_transaction)
                   >= in_reference(id)

\* The increment that gave a stored id its current in_reference: increments
\* are numbered in the order add_node applies them, the left parent of the
\* k-th admitted transaction at 2k, its right parent at 2k + 1.
ReachedAt(id) ==
    LET hits == {2 * k + i - 1 : <<k, i>> \in
                    {h \in (2..Len(admitted)) \X (1..2) :
                        /\ nodes[admitted[h[1]]].parents # None
                        /\ nodes[admitted[h[1]]].parents[h[2]] = id}}
    IN  IF hits = {} THEN 0
        ELSE CHOOSE m \in hits : \A n \in hits : m >= n

\* C9: when several stored transactions share the maximal in_reference,
\* most_in_reference_transaction is the one whose in_reference reached that
\* value first, the left parent of an add being incremented before the right.
MostInReferenceIsFirstToReach ==
    SomeAddSucceeded =>
        \A id \in Stored :
            (\A other \in Stored : in_reference(id) >= in_reference(other)) =>
                /\ metrics.most_in_reference_transaction \in Stored
                /\ in_reference(metrics.most_in_reference_transaction)
                       = in_reference(id)
                /\ ReachedAt(metrics.most_in_reference_transaction)
                       <= ReachedAt(id)

\* C10: every stored transaction with parents (l, r) has both of them stored
\* and depth min(depth(l), depth(r)) + 1, computed from their current depths.
DepthIsMinParentDepthPlusOne ==
    \A id \in Stored :
        nodes[id].parents # None =>
            /\ nodes[id].parents[1] \in Stored
            /\ nodes[id].parents[2] \in Stored
            /\ depth(id) =
                   Min(depth(nodes[id].parents[1]), depth(nodes[id].parents[2])) + 1

\* A stored transaction whose two parents have different depths.
DepthIsMinParentDepthPlusOneWitness ==
    \E id \in Stored :
        /\ nodes[id].parents # None
        /\ depth(nodes[id].parents[1]) # depth(nodes[id].parents[2])

\* Occurrences of id in the parent pairs of the stored transactions in ids.
RECURSIVE ParentOccurrences(_, _)
ParentOccurrences(id, ids) ==
    IF ids = {} THEN 0
    ELSE LET n == CHOOSE x \in ids : TRUE
         IN  (IF nodes[n].parents = None THEN 0
              ELSE Occurrences(id, nodes[n].parents))
             + ParentOccurrences(id, ids \ {n})

\* C11: with candidates built by Node::new, in_reference of every stored
\* transaction (the root included) is the number of occurrences of its id in
\* the parent pairs of all stored transactions, a pair (t, t) counting twice.
InReferenceCountsParentOccurrences ==
    \A id \in Stored : in_reference(id) = ParentOccurrences(id, Stored)

\* A transaction named twice by one child and once more by another.
InReferenceCountsParentOccurrencesWitness ==
    \E id \in Stored :
        /\ in_reference(id) = 3
        /\ \E n \in Stored : nodes[n].parents = Some(id, id)

\* C12: the transaction with id 1 is always stored, has no parents, depth 0
\* and timestamp 0, and is the only stored transaction without parents.
RootIsStoredAndUnique ==
    /\ 1 \in Stored
    /\ nodes[1].id = 1
    /\ nodes[1].parents = None
    /\ nodes[1].metrics.depth = 0
    /\ nodes[1].timestamp = 0
    /\ \A id \in Stored : nodes[id].parents = None => id = 1

\* A second root was offered (id 1 again) to a graph that stores more.
RootIsStoredAndUniqueWitness ==
    /\ result = DuplicatedIdFound(1)
    /\ Cardinality(Stored) = MaxNodes
    /\ in_reference(1) > 0

\* The ids named as a parent by the stored transactions in ids.
ParentsOf(ids) ==
    {p \in Ids \cup DeepIds :
        \E n \in ids \cap Stored :
            nodes[n].parents # None /\ p \in {nodes[n].parents[1], nodes[n].parents[2]}}

RECURSIVE AncestorsWithin(_, _)
AncestorsWithin(ids, k) ==
    IF k = 0 THEN {}
    ELSE ParentsOf(ids) \cup AncestorsWithin(ParentsOf(ids), k - 1)

Ancestors(id) == AncestorsWithin({id}, Cardinality(Stored))

\* C13: both parents of every stored transaction are stored and were
\* admitted strictly before it, so no transaction is its own parent or its
\* own ancestor.
GraphIsAcyclicAndClosed ==
    /\ Stored = {admitted[k] : k \in 1..Len(admitted)}
    /\ Cardinality(Stored) = Len(admitted)
    /\ \A id \in Stored :
           /\ nodes[id].parents # None =>
                  \A i \in 1..2 :
                      /\ nodes[id].parents[i] \in Stored
                      /\ AdmittedAt(nodes[id].parents[i]) < AdmittedAt(id)
           /\ id \notin Ancestors(id)

\* A transaction was admitted whose parents are both not the root.
GraphIsAcyclicAndClosedWitness ==
    /\ result = Ok
    /\ \E id \in Stored :
           /\ nodes[id].parents # None
           /\ 1 \notin {nodes[id].parents[1], nodes[id].parents[2]}

\* C14: for every u32 capacity hint, the largest included, with_capacity
\* succeeds and yields a graph that stores exactly the transaction 1, without
\* parents, with depth 0 and in_reference 0, and both summary fields unset.
CreateYieldsOnlyTheRoot ==
    result = NoCall =>
        /\ ~panicked
        /\ Stored = {1}
        /\ nodes[1].id = 1
        /\ nodes[1].parents = None
        /\ nodes[1].metrics = [depth |-> 0, in_reference |-> 0]
        /\ metrics = [last_transaction |-> 0, most_in_reference_transaction |-> 0]

\* The candidate a caller of add_node builds for the k-th triple (k from 1).
SingleCandidate(k) == Node_new(k + 1, values[k][1], values[k][2], values[k][3])

\* The graph after with_capacity(Len(values)) and the single add_node calls
\* of the first k candidates, each call made whatever the one before returned.
RECURSIVE SingleAdds(_)
SingleAdds(k) ==
    IF k = 0 THEN with_capacity(Len(values), FALSE)
    ELSE add_node(SingleAdds(k - 1), SingleCandidate(k)).graph

\* The positions (from 1) whose single add_node call does not return Ok.
SingleFailures ==
    {k \in 1..Len(values) :
        add_node(SingleAdds(k - 1), SingleCandidate(k)).result # Ok}

FirstOf(positions) == CHOOSE k \in positions : \A j \in positions : k <= j

\* C15: try_from over n triples returns what with_capacity(n) followed by
\* add_node of the candidates (id = position + 2) in list order gives: on
\* success a graph that stores exactly 1..n+1 and equals the graph of the n
\* single adds; otherwise the error of the first failing add and no graph.
BuildEqualsSingleAdds ==
    result # NoCall =>
        IF SingleFailures = {}
        THEN /\ result = Ok
             /\ Stored = 1..(Len(values) + 1)
             /\ graph = SingleAdds(Len(values))
        ELSE /\ result = add_node(SingleAdds(FirstOf(SingleFailures) - 1),
                                  SingleCandidate(FirstOf(SingleFailures))).result
             /\ Stored = {}

\* A build of two triples succeeded, the second naming the first's id.
BuildEqualsSingleAddsWitness ==
    /\ result = Ok
    /\ Len(values) = 2
    /\ values[2][1] = 2

\* C16: add_node returns the same result and leaves the same transactions,
\* metrics and summary whatever num_nodes the graph was created with, never
\* changes num_nodes, and admits a valid candidate however many transactions
\* the graph stores.
CapacityNeverInfluences ==
    GraphIsNew => \A c \in Candidates :
        LET a == add_node(graph, c)
        IN  /\ a.graph.num_nodes = num_nodes
            /\ \A other \in {0, U32_MAX} :
                   LET b == add_node([graph EXCEPT !.num_nodes = other], c)
                   IN  /\ b.result = a.result
                       /\ b.graph.nodes = a.graph.nodes
                       /\ b.graph.metrics = a.graph.metrics
                       /\ b.graph.num_nodes = other
            /\ (/\ c.id \notin Stored
                /\ c.parents # None
                /\ c.parents[1] \in Stored
                /\ c.parents[2] \in Stored) => a.result = Ok

\* An add succeeded on a graph that already stored more than num_nodes.
CapacityNeverInfluencesWitness ==
    /\ result = Ok
    /\ Cardinality(Stored) > num_nodes + 1

\* The stored ids with a path of at most k parent edges to the root.
RECURSIVE WithinOfRoot(_)
WithinOfRoot(k) ==
    IF k = 0 THEN {1} \cap Stored
    ELSE WithinOfRoot(k - 1) \cup
         {id \in Stored :
             /\ nodes[id].parents # None
             /\ \E i \in 1..2 : nodes[id].parents[i] \in WithinOfRoot(k - 1)}

\* Length of a shortest path from id to the root along parent references.
Distance(id) ==
    CHOOSE k \in 0..Cardinality(Stored) :
        /\ id \in WithinOfRoot(k)
        /\ \A j \in 0..(k - 1) : id \notin WithinOfRoot(j)

\* C17: the depth of every stored transaction is the number of parent edges
\* of a shortest path from it to the root; the root's is 0.
DepthIsShortestPathToRoot ==
    \A id \in Stored :
        /\ \E k \in 0..Cardinality(Stored) : id \in WithinOfRoot(k)
        /\ depth(id) = Distance(id)

\* A stored transaction two parent edges away from the root.
DepthIsShortestPathToRootWitness == \E id \in Stored : depth(id) = 2

\* C18: whatever depth and in_reference the candidate carried, the
\* transaction a successful add_node stored has depth
\* min(depth(left), depth(right)) + 1 and in_reference 0.
PlaceholdersNeverReachTheStore ==
    result = Ok =>
        LET n == admitted[Len(admitted)]
        IN  /\ depth(n) =
                   Min(depth(nodes[n].parents[1]), depth(nodes[n].parents[2])) + 1
            /\ in_reference(n) = 0

\* C19: no expect() of add_node fails: the lookups of both parents and of
\* the two recorded summary ids always find a stored transaction, so every
\* call returns Ok or one of the three errors, for candidate and parent ids
\* from 0 on.
AddNeverAborts ==
    /\ ~panicked
    /\ result # Panic
    /\ GraphIsNew => \A c \in Candidates :
           LET out == add_node(graph, c)
           IN  /\ ~out.graph.panicked
               /\ out.result \in {Ok, DuplicatedIdFound(c.id), ParentNotSpecified,
                                  ParentNotFound}

\* Adds went through after the id 0 was stored and a summary id was recorded.
AddNeverAbortsWitness ==
    /\ result = Ok
    /\ 0 \in Stored
    /\ Len(admitted) = MaxNodes
    /\ metrics.last_transaction # 0
    /\ metrics.most_in_reference_transaction # 0

\* The positions (from 1) of the triples that name a parent other than the
\* root or the id of an earlier triple.
BadPositions ==
    {k \in 1..Len(values) :
        ~(values[k][1] \in 1..k /\ values[k][2] \in 1..k)}

\* C20: try_from returns Ok exactly when both parents of the triple at every
\* 0-based position i lie in 1..i+1; otherwise it returns ParentNotFound,
\* never another error, from the first position that violates this.
BuildFailsOnlyWithParentNotFound ==
    result # NoCall =>
        IF BadPositions = {}
        THEN result = Ok
        ELSE /\ result = ParentNotFound
             /\ Len(admitted) = FirstOf(BadPositions)

\* A build failed at its second triple after admitting the first.
BuildFailedAtSecond ==
    /\ result \notin {Ok, NoCall}
    /\ Len(values) = 2
    /\ Len(admitted) = 2

====
